---- MODULE Spec2Model ----
(***************************************************************************)
(* State-machine models of the hooks and components of the React           *)
(* interview-question snippets: useDebounce / DebouncedInput, useThrottle  *)
(* / ThrottledResize, DataFetchingComponent (Question 14), useFetch        *)
(* (Question 16), UserList (question1), the Immer reducer (Question 21),   *)
(* useFormValidation (Question 25) and the error boundaries.               *)
(*                                                                         *)
(* One render of a component together with the effects React commits for   *)
(* it is one action.  Each component has its own specification; the        *)
(* variables of the other components stay at their constructed values.     *)
(***************************************************************************)
EXTENDS Integers, Sequences, FiniteSets, TLC

VARIABLES
  now,             \* the clock read by setTimeout and Date.now, in ms
  dbPhase,         \* useDebounce host: "init", "mounted" or "unmounted"
  inputValue,      \* the value argument of useDebounce at the last render
  delay,           \* the delay argument of useDebounce at the last render
  debouncedValue,  \* useState(value) of useDebounce
  timers,          \* pending setTimeout callbacks: records [due, value]
  handler,         \* the timeout captured by the last effect's cleanup
  valueSince,      \* history: the time inputValue took its present value
  trPhase,         \* ThrottledResize: "init", "mounted" or "unmounted"
  renders,         \* number of renders so far: names the render's handleResize
  listeners,       \* resize listeners attached to window (handleResize names)
  lastCall,        \* useRef(0) of useThrottle
  innerSize,       \* window.innerWidth x window.innerHeight
  windowSize,      \* useState of ThrottledResize
  calls,           \* history: Date.now() of every invocation of the callback
  dfPhase,         \* DataFetchingComponent (Question 14): "init", "mounted", "unmounted"
  isMounted,       \* the effect's local flag
  loadPc,          \* where loadData stands: "idle", "fetch", "json", "done", "failed"
  dfBody,          \* the body of the response fetch resolved with
  dfData,          \* useState<string[]>([])
  dfLoading,       \* useState(true)
  lateUpdates,     \* history: setData / setLoading calls made after the unmount
  ufPhase,         \* useFetch host (Question 16): "init" or "mounted"
  url,             \* the url argument at the last render
  ufState,         \* useState<FetchState<T>>
  reqs,            \* one entry per run of fetchData, in the order they started
  ulPhase,         \* UserList: "init" (constructed) or "mounted"
  ulState,         \* this.state of UserList
  ulReq,           \* the axios request: "none", "pending", "resolved", "rejected"
  heap,            \* Question 21: the objects allocated so far, by address
  rState,          \* useReducer's current state (an address)
  prevState,       \* history: the state passed to the last reducer call
  prevSnap,        \* history: what prevState held before that call
  lastAction,      \* history: the action of the last reducer call
  form,            \* useFormValidation: useState(initialState)
  errors,          \* useState<Errors>({})
  renderedForm,    \* the form captured by the handlers of the last render
  submits,         \* history: submit events handled
  prevented,       \* history: calls of e.preventDefault()
  callbacks,       \* history: calls of the submit callback
  ebKind,          \* the error boundary mounted: "none", "ErrorBoundary", "CustomErrorBoundary"
  hasError,        \* this.state.hasError of the boundary
  ebChildren,      \* props.children
  ebFallback,      \* props.fallback (CustomErrorBoundary only)
  ebThrown,        \* history: the error a descendant threw and how deep it was
  logged           \* console.error calls, in order

clockVars == <<now>>
dbVars == <<dbPhase, inputValue, delay, debouncedValue, timers, handler, valueSince>>
trVars == <<trPhase, renders, listeners, lastCall, innerSize, windowSize, calls>>
dfVars == <<dfPhase, isMounted, loadPc, dfBody, dfData, dfLoading, lateUpdates>>
ufVars == <<ufPhase, url, ufState, reqs>>
ulVars == <<ulPhase, ulState, ulReq>>
rdVars == <<heap, rState, prevState, prevSnap, lastAction>>
fmVars == <<form, errors, renderedForm, submits, prevented, callbacks>>
ebVars == <<ebKind, hasError, ebChildren, ebFallback, ebThrown, logged>>
vars == <<clockVars, dbVars, trVars, dfVars, ufVars, ulVars, rdVars, fmVars, ebVars>>

\* What the actions of one component leave alone.
exceptDb == <<trVars, dfVars, ufVars, ulVars, rdVars, fmVars, ebVars>>
exceptTr == <<dbVars, dfVars, ufVars, ulVars, rdVars, fmVars, ebVars>>
exceptDf == <<clockVars, dbVars, trVars, ufVars, ulVars, rdVars, fmVars, ebVars>>
exceptUf == <<clockVars, dbVars, trVars, dfVars, ulVars, rdVars, fmVars, ebVars>>
exceptUl == <<clockVars, dbVars, trVars, dfVars, ufVars, rdVars, fmVars, ebVars>>
exceptRd == <<clockVars, dbVars, trVars, dfVars, ufVars, ulVars, fmVars, ebVars>>
exceptFm == <<clockVars, dbVars, trVars, dfVars, ufVars, ulVars, rdVars, ebVars>>
exceptEb == <<clockVars, dbVars, trVars, dfVars, ufVars, ulVars, rdVars, fmVars>>

\* A JavaScript value that may be null: Null, or Some(x).
Null == <<>>
Some(x) == <<x>>

\* ------------------------------------------------------------------ bounds
MaxTime == 2500
MaxRenders == 4

\* Clock advances between two events, in ms.
Steps == {250, 499}

Min(a, b) == IF a <= b THEN a ELSE b

\* Time passes.
Tick ==
  /\ now < MaxTime
  /\ \E s \in Steps : now' = Min(now + s, MaxTime)
  /\ UNCHANGED <<dbVars, exceptDb>>

\* ------------------------------------------------------------ useDebounce
Values == {"", "r", "re"}
Delays == {250, 500}
InputDelay == 500
NoTimer == [due |-> -1, value |-> ""]

dbClockInit == now = 0

dbInit ==
  /\ dbPhase = "init"
  /\ inputValue = ""
  /\ delay = 0
  /\ debouncedValue = ""
  /\ timers = {}
  /\ handler = NoTimer
  /\ valueSince = 0

\* setTimeout(() => setDebouncedValue(value), delay)
SetTimeout(v, d) == [due |-> now + d, value |-> v]

ClearTimeoutNothing(ts, h) == ts

\* clearTimeout(handler) in the effect's cleanup
ClearTimeout(ts, h) == ts \ {h}

DepsNeverChange(v, d) == FALSE

\* the dependency array [value, delay]
DepsChanged(v, d) == v # inputValue \/ d # delay

\* First render of a component calling useDebounce(v, d), and its effect.
HookMount(v, d) ==
  /\ dbPhase = "init"
  /\ now + d <= MaxTime
  /\ dbPhase' = "mounted"
  /\ inputValue' = v
  /\ delay' = d
  /\ debouncedValue' = v
  /\ handler' = SetTimeout(v, d)
  /\ timers' = timers \cup {SetTimeout(v, d)}
  /\ valueSince' = now
  /\ UNCHANGED <<clockVars, exceptDb>>

\* A later render with arguments (v, d): when a dependency changed, the
\* previous effect's cleanup runs and the effect starts a new timeout.
HookRender(v, d) ==
  /\ dbPhase = "mounted"
  /\ <<v, d>> # <<inputValue, delay>>
  /\ now + d <= MaxTime
  /\ inputValue' = v
  /\ delay' = d
  /\ valueSince' = IF v # inputValue THEN now ELSE valueSince
  /\ IF DepsChanged(v, d)
       THEN /\ handler' = SetTimeout(v, d)
            /\ timers' = ClearTimeout(timers, handler) \cup {SetTimeout(v, d)}
       ELSE UNCHANGED <<handler, timers>>
  /\ UNCHANGED <<dbPhase, debouncedValue, clockVars, exceptDb>>

\* A timeout whose delay has elapsed runs: setDebouncedValue(value).
TimerFire ==
  /\ \E t \in timers :
       /\ t.due <= now
       /\ timers' = timers \ {t}
       /\ debouncedValue' = IF dbPhase = "mounted" THEN t.value ELSE debouncedValue
  /\ UNCHANGED <<dbPhase, inputValue, delay, handler, valueSince, clockVars, exceptDb>>

\* Unmount: the last effect's cleanup runs.
HookUnmount ==
  /\ dbPhase = "mounted"
  /\ dbPhase' = "unmounted"
  /\ timers' = ClearTimeout(timers, handler)
  /\ UNCHANGED <<inputValue, delay, debouncedValue, handler, valueSince, clockVars, exceptDb>>

UseDebounceMount == \E v \in Values, d \in Delays : HookMount(v, d)
UseDebounceRender == \E v \in Values, d \in Delays : HookRender(v, d)

\* DebouncedInput: useState('') and useDebounce(inputValue, 500).
DebouncedInputMount == HookMount("", InputDelay)
\* onChange={(e) => setInputValue(e.target.value)}
OnChange == \E v \in Values : HookRender(v, InputDelay)


\* ------------------------------------------- useThrottle / ThrottledResize
ThrottleDelay == 1000
Sizes == {<<800, 600>>, <<1024, 768>>}
\* Date.now() when the page starts: ms since 1970, far beyond any delay.
StartTimes == {1000, 1749}

trClockInit == now \in StartTimes

trInit ==
  /\ trPhase = "init"
  /\ renders = 0
  /\ listeners = {}
  /\ lastCall = 0
  /\ innerSize = <<800, 600>>
  /\ windowSize = <<0, 0>>
  /\ calls = <<>>

RefResetOnRender(current) == 0

\* useRef<number>(0): the ref object, and so lastCall.current, is the same
\* on every render of the component.
UseRef(current) == current

\* window.addEventListener('resize', handleResize)
AddEventListener(ls, h) == ls \cup {h}

RemoveLatestListener(ls, h) == ls \ {renders + 1}

\* window.removeEventListener('resize', handleResize), with the handleResize
\* of the render whose effect is cleaned up
RemoveEventListener(ls, h) == ls \ {h}

\* One render of ThrottledResize and its effect: useThrottle returns a new
\* function, the previous effect's cleanup removes the previous render's
\* listener and the effect adds the new one.
Subscribe(ls) ==
  AddEventListener(IF renders = 0 THEN ls ELSE RemoveEventListener(ls, renders),
                   renders + 1)

ThrottledResizeMount ==
  /\ trPhase = "init"
  /\ trPhase' = "mounted"
  /\ renders' = renders + 1
  /\ listeners' = Subscribe(listeners)
  /\ windowSize' = innerSize
  /\ lastCall' = 0
  /\ UNCHANGED <<innerSize, calls, clockVars, exceptTr>>

\* The throttled function's test: now - lastCall.current >= delay
ThrottleOpen(d) == now - lastCall >= d

\* The window is resized and the resize event is dispatched to the attached
\* listeners.  Every listener is a throttled function sharing lastCall; the
\* first one that passes the test calls the callback and sets lastCall, so
\* the others (if any) do not pass.  setWindowSize gets a new object, so the
\* component renders again.
Resize(sz) ==
  /\ sz # innerSize
  /\ innerSize' = sz
  /\ IF listeners # {} /\ ThrottleOpen(ThrottleDelay)
       THEN /\ calls' = Append(calls, now)
            /\ IF trPhase = "mounted"
                 THEN /\ renders < MaxRenders
                      /\ windowSize' = sz
                      /\ renders' = renders + 1
                      /\ listeners' = Subscribe(listeners)
                      /\ lastCall' = UseRef(now)
                 ELSE /\ lastCall' = now
                      /\ UNCHANGED <<windowSize, renders, listeners>>
       ELSE UNCHANGED <<calls, lastCall, windowSize, renders, listeners>>
  /\ UNCHANGED <<trPhase, clockVars, exceptTr>>

ResizeEvent == \E sz \in Sizes : Resize(sz)

\* The parent renders again, and ThrottledResize with it.
ThrottledResizeRender ==
  /\ trPhase = "mounted"
  /\ renders < MaxRenders
  /\ renders' = renders + 1
  /\ listeners' = Subscribe(listeners)
  /\ lastCall' = UseRef(lastCall)
  /\ UNCHANGED <<trPhase, innerSize, windowSize, calls, clockVars, exceptTr>>

\* Unmount: the last effect's cleanup runs.
ThrottledResizeUnmount ==
  /\ trPhase = "mounted"
  /\ trPhase' = "unmounted"
  /\ listeners' = RemoveEventListener(listeners, renders)
  /\ UNCHANGED <<renders, lastCall, innerSize, windowSize, calls, clockVars, exceptTr>>


\* All sequences over S of length at most n.
SeqsUpTo(S, n) == UNION {[1..k -> S] : k \in 0..n}

\* --------------------------------- DataFetchingComponent (Question 14)
Items == {"a", "b", "c"}
MaxItems == 3
\* A response body: response.json() resolves with data when it is valid
\* JSON and rejects otherwise.
NoBody == [valid |-> FALSE, data |-> <<>>]
Bodies == {NoBody} \cup {[valid |-> TRUE, data |-> d] : d \in SeqsUpTo(Items, MaxItems)}

dfInit ==
  /\ dfPhase = "init"
  /\ isMounted = FALSE
  /\ loadPc = "idle"
  /\ dfBody = NoBody
  /\ dfData = <<>>
  /\ dfLoading = TRUE
  /\ lateUpdates = 0

\* The effect: let isMounted = true; loadData() runs up to its await, where
\* fetchData() waits for fetch.
DataFetchingMount ==
  /\ dfPhase = "init"
  /\ dfPhase' = "mounted"
  /\ isMounted' = TRUE
  /\ loadPc' = "fetch"
  /\ UNCHANGED <<dfBody, dfData, dfLoading, lateUpdates, exceptDf>>

\* fetch resolves with a response (response.ok is not looked at):
\* fetchData goes on to await response.json().
FetchResolves ==
  /\ loadPc = "fetch"
  /\ \E b \in Bodies : dfBody' = b
  /\ loadPc' = "json"
  /\ UNCHANGED <<dfPhase, isMounted, dfData, dfLoading, lateUpdates, exceptDf>>

\* fetch rejects: loadData's catch block runs, which does nothing.
FetchRejects ==
  /\ loadPc = "fetch"
  /\ loadPc' = "failed"
  /\ UNCHANGED <<dfPhase, isMounted, dfBody, dfData, dfLoading, lateUpdates, exceptDf>>

GuardAlwaysOpen == TRUE

\* if (isMounted) { ... }
MountedGuard == isMounted

\* response.json() settles.  When it resolves, fetchData returns the data and
\* loadData resumes: under the guard it calls setData(result) and
\* setLoading(false).  React ignores a state update of an unmounted component.
JsonSettles ==
  /\ loadPc = "json"
  /\ IF dfBody.valid
       THEN /\ loadPc' = "done"
            /\ IF MountedGuard
                 THEN /\ lateUpdates' = IF dfPhase = "unmounted" THEN lateUpdates + 2
                                                                 ELSE lateUpdates
                      /\ dfData' = IF dfPhase = "mounted" THEN dfBody.data ELSE dfData
                      /\ dfLoading' = IF dfPhase = "mounted" THEN FALSE ELSE dfLoading
                 ELSE UNCHANGED <<lateUpdates, dfData, dfLoading>>
       ELSE /\ loadPc' = "failed"
            /\ UNCHANGED <<lateUpdates, dfData, dfLoading>>
  /\ UNCHANGED <<dfPhase, isMounted, dfBody, exceptDf>>

\* Unmount: the effect's cleanup runs, isMounted = false.
DataFetchingUnmount ==
  /\ dfPhase = "mounted"
  /\ dfPhase' = "unmounted"
  /\ isMounted' = FALSE
  /\ UNCHANGED <<loadPc, dfBody, dfData, dfLoading, lateUpdates, exceptDf>>

\* ------------------------------------------------ useFetch (Question 16)
Urls == {"/data", "/more"}
MaxRequests == 3
NotOkMessage == "Network response was not ok"
\* The errors fetch and response.json() reject with.
FetchErrors == {"Failed to fetch"}
JsonErrors == {"Unexpected token < in JSON"}
\* What a body parses to: null, or a list.
UfData == {Null} \cup {Some(d) : d \in SeqsUpTo(Items, 1)}
UfBodies == {[valid |-> FALSE, data |-> Null]} \cup {[valid |-> TRUE, data |-> d] : d \in UfData}

ufInit ==
  /\ ufPhase = "init"
  /\ url = ""
  /\ ufState = [data |-> Null, loading |-> TRUE, error |-> Null]
  /\ reqs = <<>>

\* One run of fetchData: status is what fetch did ("pending", "ok", "notok",
\* "rejected"), pc where the function stands, parsed whether response.json()
\* was called, rejection the error fetch or response.json() rejected with.
NewRequest(u) ==
  [url |-> u, pc |-> "fetch", status |-> "pending",
   body |-> [valid |-> FALSE, data |-> Null], parsed |-> FALSE, rejection |-> Null]

\* First render with url u: useState's initial state, and the effect calls
\* fetchData.
UseFetchMount(u) ==
  /\ ufPhase = "init"
  /\ ufPhase' = "mounted"
  /\ url' = u
  /\ reqs' = Append(reqs, NewRequest(u))
  /\ UNCHANGED <<ufState, exceptUf>>

\* A render with another url: the effect ([url]) calls fetchData again; the
\* state is not reset and the earlier request is not cancelled.
UrlChange(u) ==
  /\ ufPhase = "mounted"
  /\ u # url
  /\ Len(reqs) < MaxRequests
  /\ url' = u
  /\ reqs' = Append(reqs, NewRequest(u))
  /\ UNCHANGED <<ufPhase, ufState, exceptUf>>

CatchKeepsData(msg) == [ufState EXCEPT !.loading = FALSE, !.error = Some(msg)]

\* catch (error) { setState({ data: null, loading: false, error: error.message }) }
CatchState(msg) == [data |-> Null, loading |-> FALSE, error |-> Some(msg)]

OkNotChecked(ok) == TRUE

\* if (!response.ok) throw ...: whether the function goes on to parse
ResponseOk(ok) == ok

\* fetch resolves with a response.
UfFetchResolves(i, ok, b) ==
  /\ reqs[i].pc = "fetch"
  /\ IF ResponseOk(ok)
       THEN /\ reqs' = [reqs EXCEPT ![i].pc = "json", ![i].body = b, ![i].parsed = TRUE,
                                    ![i].status = IF ok THEN "ok" ELSE "notok"]
            /\ UNCHANGED ufState
       ELSE /\ reqs' = [reqs EXCEPT ![i].pc = "failed", ![i].body = b,
                                    ![i].status = "notok"]
            /\ ufState' = CatchState(NotOkMessage)
  /\ UNCHANGED <<ufPhase, url, exceptUf>>

\* fetch rejects with an error.
UfFetchRejects(i, msg) ==
  /\ reqs[i].pc = "fetch"
  /\ reqs' = [reqs EXCEPT ![i].pc = "failed", ![i].status = "rejected",
                          ![i].rejection = Some(msg)]
  /\ ufState' = CatchState(msg)
  /\ UNCHANGED <<ufPhase, url, exceptUf>>

\* response.json() resolves: setState({ data, loading: false, error: null }).
UfJsonResolves(i) ==
  /\ reqs[i].pc = "json"
  /\ reqs[i].body.valid
  /\ reqs' = [reqs EXCEPT ![i].pc = "done"]
  /\ ufState' = [data |-> reqs[i].body.data, loading |-> FALSE, error |-> Null]
  /\ UNCHANGED <<ufPhase, url, exceptUf>>

\* response.json() rejects with an error.
UfJsonRejects(i, msg) ==
  /\ reqs[i].pc = "json"
  /\ ~reqs[i].body.valid
  /\ reqs' = [reqs EXCEPT ![i].pc = "failed", ![i].rejection = Some(msg)]
  /\ ufState' = CatchState(msg)
  /\ UNCHANGED <<ufPhase, url, exceptUf>>

UfMount == \E u \in Urls : UseFetchMount(u)
UfUrlChange == \E u \in Urls : UrlChange(u)
UfResolve == \E i \in 1..Len(reqs), ok \in BOOLEAN, b \in UfBodies : UfFetchResolves(i, ok, b)
UfReject == \E i \in 1..Len(reqs), msg \in FetchErrors : UfFetchRejects(i, msg)
UfParsed == \E i \in 1..Len(reqs) : UfJsonResolves(i)
UfParseFails == \E i \in 1..Len(reqs), msg \in JsonErrors : UfJsonRejects(i, msg)

\* ------------------------------------------------- UserList (question1)
Users ==
  { [id |-> 1, name |-> "Ann", email |-> "ann@example.com"],
    [id |-> 2, name |-> "Bob", email |-> "bob@example.com"],
    [id |-> 3, name |-> "Cy", email |-> "cy@example.com"] }
MaxUsers == 4
\* error.message of the errors axios rejects with
AxiosErrors == {"Network Error", "Request failed with status code 500"}

ulInit ==
  /\ ulPhase = "init"
  /\ ulState = [users |-> <<>>, loading |-> TRUE, error |-> Null]
  /\ ulReq = [status |-> "none", data |-> <<>>, message |-> ""]

\* componentDidMount: fetchUsers runs up to its await.
UserListMount ==
  /\ ulPhase = "init"
  /\ ulPhase' = "mounted"
  /\ ulReq' = [ulReq EXCEPT !.status = "pending"]
  /\ UNCHANGED <<ulState, exceptUl>>

RejectedStillLoading(msg) == [ulState EXCEPT !.error = Some(msg)]

\* this.setState({ error: error.message, loading: false })
RejectedState(msg) == [ulState EXCEPT !.error = Some(msg), !.loading = FALSE]

\* axios.get resolves: this.setState({ users: response.data, loading: false })
UserListResolves(d) ==
  /\ ulReq.status = "pending"
  /\ ulReq' = [ulReq EXCEPT !.status = "resolved", !.data = d]
  /\ ulState' = [ulState EXCEPT !.users = d, !.loading = FALSE]
  /\ UNCHANGED <<ulPhase, exceptUl>>

\* axios.get rejects: the catch block runs.
UserListRejects(msg) ==
  /\ ulReq.status = "pending"
  /\ ulReq' = [ulReq EXCEPT !.status = "rejected", !.message = msg]
  /\ ulState' = RejectedState(msg)
  /\ UNCHANGED <<ulPhase, exceptUl>>

UsersResolve == \E d \in SeqsUpTo(Users, MaxUsers) : UserListResolves(d)
UsersReject == \E msg \in AxiosErrors : UserListRejects(msg)

\* if (error): null and the empty string are falsy
Truthy(e) == e # Null /\ e # Some("")

\* render()
UserListRender(st) ==
  IF st.loading THEN [tag |-> "p", text |-> "Loading...", items |-> <<>>]
  ELSE IF Truthy(st.error) THEN [tag |-> "p", text |-> st.error[1], items |-> <<>>]
  ELSE [tag |-> "ul", text |-> "",
        items |-> [i \in 1..Len(st.users) |->
                     [key |-> st.users[i].id,
                      text |-> <<st.users[i].name, " - ", st.users[i].email>>]]]

\* ------------------------------------------ Immer reducer (Question 21)
\* Objects live in a heap and are named by their address, so that changing
\* an object in place and building a changed copy are different things.
MaxHeap == 14
MaxId == 2
Names == {"New User", "Updated User"}
ActionTypes == {"add_user", "update_user", "remove_user"}
Actions == [type : ActionTypes, payload : [id : 1..MaxId, name : Names]]
NoAction == [type |-> "none", payload |-> [id |-> 0, name |-> ""]]

StateObj(arr) == [kind |-> "state", users |-> arr, items |-> <<>>, id |-> 0, name |-> ""]
ArrayObj(its) == [kind |-> "array", users |-> 0, items |-> its, id |-> 0, name |-> ""]
UserObj(u) == [kind |-> "user", users |-> 0, items |-> <<>>, id |-> u.id, name |-> u.name]

\* const initialState: State = { users: [] }: the state object at address 1
\* and its users array at address 2.
rdInit ==
  /\ heap = <<StateObj(2), ArrayObj(<<>>)>>
  /\ rState = 1
  /\ prevState = 1
  /\ prevSnap = <<>>
  /\ lastAction = NoAction

\* The users array of state s in heap h, as addresses.
UsersOf(h, s) == h[h[s].users].items

\* The value of state s in heap h: its users' ids and names, in order.
Deep(h, s) ==
  [i \in 1..Len(UsersOf(h, s)) |-> [id |-> h[UsersOf(h, s)[i]].id,
                                     name |-> h[UsersOf(h, s)[i]].name]]

\* draft.users.find((u) => u.id === action.payload.id): the index of the
\* first user with that id, 0 when there is none.
FindUser(h, s, id) ==
  LET hits == {i \in 1..Len(UsersOf(h, s)) : h[UsersOf(h, s)[i]].id = id}
  IN IF hits = {} THEN 0 ELSE CHOOSE i \in hits : \A j \in hits : i <= j

\* The recipe run on the base objects themselves, without produce.
ReducerInPlace(h, s, a) ==
  LET n == Len(h)
      idx == FindUser(h, s, a.payload.id)
  IN CASE a.type = "add_user" ->
            [heap |-> [Append(h, UserObj(a.payload)) EXCEPT ![h[s].users].items = Append(@, n + 1)],
             state |-> s]
       [] a.type = "update_user" /\ idx # 0 ->
            [heap |-> [h EXCEPT ![UsersOf(h, s)[idx]].name = a.payload.name], state |-> s]
       [] OTHER -> [heap |-> h, state |-> s]

\* reducer(state, action) = produce(state, recipe).  produce runs the recipe
\* on a draft: every object the recipe changes is copied, with the objects on
\* the path to it, and the copies make the returned state; when the recipe
\* changes nothing (an assignment of the value a field already has is no
\* change) produce returns the base state itself.  push(action.payload) puts
\* the payload object itself, here allocated at n + 1, in the new array.
Reducer(h, s, a) ==
  LET n == Len(h)
      its == UsersOf(h, s)
      idx == FindUser(h, s, a.payload.id)
  IN CASE a.type = "add_user" ->
            [heap |-> h \o <<UserObj(a.payload), ArrayObj(Append(its, n + 1)),
                             StateObj(n + 2)>>,
             state |-> n + 3]
       [] a.type = "update_user" /\ idx # 0 /\ h[its[idx]].name # a.payload.name ->
            [heap |-> h \o <<[h[its[idx]] EXCEPT !.name = a.payload.name],
                             ArrayObj([its EXCEPT ![idx] = n + 1]),
                             StateObj(n + 2)>>,
             state |-> n + 3]
       [] OTHER -> [heap |-> h, state |-> s]

\* dispatch(a): useReducer's state becomes what the reducer returns.
Dispatch(a) ==
  /\ Len(heap) + 3 <= MaxHeap
  /\ heap' = Reducer(heap, rState, a).heap
  /\ rState' = Reducer(heap, rState, a).state
  /\ prevState' = rState
  /\ prevSnap' = Deep(heap, rState)
  /\ lastAction' = a
  /\ UNCHANGED exceptRd

DispatchAny == \E a \in Actions : Dispatch(a)

\* ---------------------------------------- useFormValidation (Question 25)
Fields == {"name", "email", "password"}
FieldValues == {"", "x"}
MaxSubmits == 3
Required(k) ==
  CASE k = "name" -> "Name is required"
    [] k = "email" -> "Email is required"
    [] k = "password" -> "Password is required"

\* useFormValidation({ name: '', email: '', password: '' })
fmInit ==
  /\ form = [name |-> "", email |-> "", password |-> ""]
  /\ errors = {}
  /\ renderedForm = [name |-> "", email |-> "", password |-> ""]
  /\ submits = 0
  /\ prevented = 0
  /\ callbacks = 0

ValidateWithoutPassword(f) ==
  {[field |-> k, message |-> Required(k)] : k \in {k \in {"name", "email"} : f[k] = ""}}

\* validate(): newErrors, for the form f its closure holds
Validate(f) ==
  {[field |-> k, message |-> Required(k)] : k \in {k \in Fields : f[k] = ""}}

\* handleChange: setForm((prevForm) => ({ ...prevForm, [name]: value })), and
\* the render that follows gives the handlers the new form.
HandleChange(k, v) ==
  /\ form' = [form EXCEPT ![k] = v]
  /\ renderedForm' = form'
  /\ UNCHANGED <<errors, submits, prevented, callbacks, exceptFm>>

\* The handler handleSubmit(callback) returned at the last render runs on a
\* submit event.
Submit ==
  /\ submits < MaxSubmits
  /\ submits' = submits + 1
  /\ prevented' = prevented + 1
  /\ errors' = Validate(renderedForm)
  /\ callbacks' = IF Validate(renderedForm) = {} THEN callbacks + 1 ELSE callbacks
  /\ UNCHANGED <<form, renderedForm, exceptFm>>

Change == \E k \in Fields, v \in FieldValues : HandleChange(k, v)

\* ------------------------- ErrorBoundary / CustomErrorBoundary (17., 63.)
MaxDepth == 3
ChildTrees == {"<UserList />", "<YourApp />", "<Profile />"}
Fallbacks == {"<div>Something went wrong.</div>", "<p>Try again later.</p>", "<ErrorPage />"}
ThrownErrors == {"TypeError: users.map is not a function", "RangeError", "Error: boom"}
NoFallback == ""
FixedFallback == "<div>Something went wrong.</div>"

ebInit ==
  /\ ebKind = "none"
  /\ hasError = FALSE
  /\ ebChildren = ""
  /\ ebFallback = NoFallback
  /\ ebThrown = Null
  /\ logged = <<>>

\* constructor: this.state = { hasError: false }, and the first render.
BoundaryMount(k, c, f) ==
  /\ ebKind = "none"
  /\ ebKind' = k
  /\ hasError' = FALSE
  /\ ebChildren' = c
  /\ ebFallback' = f
  /\ UNCHANGED <<ebThrown, logged, exceptEb>>

\* <ErrorBoundary> takes children only; <CustomErrorBoundary> also a fallback.
MountErrorBoundary == \E c \in ChildTrees : BoundaryMount("ErrorBoundary", c, NoFallback)
MountCustomErrorBoundary ==
  \E c \in ChildTrees, f \in Fallbacks : BoundaryMount("CustomErrorBoundary", c, f)

\* The parent renders the boundary with other props.
BoundaryRender(c, f) ==
  /\ ebKind # "none"
  /\ <<c, f>> # <<ebChildren, ebFallback>>
  /\ ebKind = "ErrorBoundary" => f = NoFallback
  /\ ebKind = "CustomErrorBoundary" => f # NoFallback
  /\ ebChildren' = c
  /\ ebFallback' = f
  /\ UNCHANGED <<ebKind, hasError, ebThrown, logged, exceptEb>>

ParentRender == \E c \in ChildTrees, f \in Fallbacks \cup {NoFallback} : BoundaryRender(c, f)

DerivedStateKeepsRendering(err) == [hasError |-> FALSE]

\* static getDerivedStateFromError(error) { return { hasError: true } }
GetDerivedStateFromError(err) == [hasError |-> TRUE]

\* componentDidCatch(error, errorInfo): the arguments of console.error
ComponentDidCatch(err, depth) ==
  [label |-> IF ebKind = "ErrorBoundary" THEN "Error caught by ErrorBoundary:"
                                         ELSE "Error caught by CustomErrorBoundary:",
   error |-> err, componentStack |-> depth]

\* A component depth levels below the boundary throws err while it renders
\* (in render, a lifecycle method or its constructor): React gives the error
\* to the boundary, which takes the state getDerivedStateFromError returns,
\* renders again, and has componentDidCatch called when that is committed.
\* The children render only while hasError is false.
DescendantThrows(err, depth) ==
  /\ ebKind # "none"
  /\ ~hasError
  /\ hasError' = GetDerivedStateFromError(err).hasError
  /\ logged' = Append(logged, ComponentDidCatch(err, depth))
  /\ ebThrown' = Some([error |-> err, depth |-> depth])
  /\ UNCHANGED <<ebKind, ebChildren, ebFallback, exceptEb>>

ChildThrows == \E err \in ThrownErrors, depth \in 1..MaxDepth : DescendantThrows(err, depth)

\* render()
BoundaryRendered ==
  IF hasError
    THEN IF ebKind = "ErrorBoundary" THEN FixedFallback ELSE ebFallback
    ELSE ebChildren

\* --------------------------------------------------------- specifications
\* Every component as constructed, the clock at 0.
InitIdle ==
  dbClockInit /\ dbInit /\ trInit /\ dfInit /\ ufInit /\ ulInit /\ rdInit /\ fmInit /\ ebInit

\* The useDebounce hook under a host that renders it with any arguments.
NextDebounce ==
  \/ UseDebounceMount
  \/ UseDebounceRender
  \/ TimerFire
  \/ HookUnmount
  \/ Tick

SpecDebounce == InitIdle /\ [][NextDebounce]_vars

\* DebouncedInput.  Timeouts that are due do run and time does pass.
NextDebouncedInput ==
  \/ DebouncedInputMount
  \/ OnChange
  \/ TimerFire
  \/ HookUnmount
  \/ Tick

SpecDebouncedInput ==
  InitIdle /\ [][NextDebouncedInput]_vars /\ WF_vars(TimerFire) /\ WF_vars(Tick)

\* ThrottledResize.
InitThrottledResize ==
  trClockInit /\ dbInit /\ trInit /\ dfInit /\ ufInit /\ ulInit /\ rdInit /\ fmInit /\ ebInit

NextThrottledResize ==
  \/ ThrottledResizeMount
  \/ ResizeEvent
  \/ ThrottledResizeRender
  \/ ThrottledResizeUnmount
  \/ Tick

SpecThrottledResize == InitThrottledResize /\ [][NextThrottledResize]_vars

\* DataFetchingComponent (Question 14).
NextDataFetching ==
  \/ DataFetchingMount
  \/ FetchResolves
  \/ FetchRejects
  \/ JsonSettles
  \/ DataFetchingUnmount

SpecDataFetching == InitIdle /\ [][NextDataFetching]_vars

\* useFetch (Question 16).
NextUseFetch ==
  \/ UfMount
  \/ UfUrlChange
  \/ UfResolve
  \/ UfReject
  \/ UfParsed
  \/ UfParseFails

SpecUseFetch == InitIdle /\ [][NextUseFetch]_vars

\* UserList (question1).
NextUserList ==
  \/ UserListMount
  \/ UsersResolve
  \/ UsersReject

SpecUserList == InitIdle /\ [][NextUserList]_vars

\* The reducer of Question 21 under useReducer.
NextReducer == DispatchAny

SpecReducer == InitIdle /\ [][NextReducer]_vars

\* useFormValidation under FormComponent.
NextFormValidation ==
  \/ Change
  \/ Submit

SpecFormValidation == InitIdle /\ [][NextFormValidation]_vars

\* An error boundary around a child tree.
NextErrorBoundary ==
  \/ MountErrorBoundary
  \/ MountCustomErrorBoundary
  \/ ParentRender
  \/ ChildThrows

SpecErrorBoundary == InitIdle /\ [][NextErrorBoundary]_vars

\* ------------------------------------------------------------------ claims
\* C1: once mounted (the first render returns the initial value at once), the
\* debounced value changes to v only when the input has been v continuously
\* for at least delay ms (so a value replaced earlier is never returned), and
\* at most one timeout is pending at any time.
DebounceOnlyAfterQuiet ==
  /\ [](Cardinality(timers) <= 1)
  /\ [][dbPhase = "mounted" /\ debouncedValue' # debouncedValue =>
          /\ debouncedValue' = inputValue
          /\ now - valueSince >= delay]_vars

\* C1 witness: the input changed, was replaced, and the debounced value has
\* since changed to the replacing value.
DebounceWitness ==
  /\ dbPhase = "mounted"
  /\ debouncedValue = "re"
  /\ inputValue = "re"
  /\ valueSince > 0
  /\ timers = {}

\* C9: in DebouncedInput, while it stays mounted, the debounced value
\* eventually equals the last input value and stays equal to it.
DebouncedEventuallyInput ==
  <>[](dbPhase = "mounted" => debouncedValue = inputValue)

\* C9 witness: the timeout of the last typed value has run.
DebouncedInputWitness ==
  /\ dbPhase = "mounted"
  /\ inputValue = "re"
  /\ debouncedValue = "re"
  /\ timers = {}
  /\ now >= valueSince + InputDelay

\* C2: any two consecutive invocations of the throttled callback are at
\* least the delay apart by Date.now, whatever renders come between them.
ThrottleSpacing ==
  \A i \in 1..Len(calls) - 1 : calls[i + 1] - calls[i] >= ThrottleDelay

\* C2 witness: the callback ran twice with a render of the component between.
ThrottleWitness ==
  /\ Len(calls) >= 2
  /\ renders >= 3

\* C8: while ThrottledResize is mounted exactly one of its resize listeners is
\* attached to window, and none is attached before the mount or after the
\* unmount.
OneResizeListener ==
  /\ trPhase = "mounted" => Cardinality(listeners) = 1
  /\ trPhase # "mounted" => listeners = {}

\* C8 witness: the component rendered several times and is now unmounted.
ResizeListenerWitness ==
  /\ trPhase = "unmounted"
  /\ renders >= 3


\* C3: in DataFetchingComponent no setData or setLoading call is ever made
\* after the unmount, whenever the fetch settles.
NoUpdateAfterUnmount == lateUpdates = 0

\* C3 witness: the fetch resolved with data after the unmount and the
\* component's state was left as it was.
LateFetchWitness ==
  /\ dfPhase = "unmounted"
  /\ loadPc = "done"
  /\ dfBody.data # <<>>
  /\ dfLoading
  /\ dfData = <<>>

\* C4: useFetch starts in {data: null, loading: true, error: null}; data and
\* error are never both non-null, and while loading both are null.
FetchStatesExclusive ==
  /\ ufPhase = "init" => ufState = [data |-> Null, loading |-> TRUE, error |-> Null]
  /\ ~(ufState.data # Null /\ ufState.error # Null)
  /\ ufState.loading => ufState.data = Null /\ ufState.error = Null

\* C4 witness: after the url changed, a request failed following one that
\* succeeded with data.
FetchStatesWitness ==
  /\ Len(reqs) >= 2
  /\ reqs[1].pc = "done"
  /\ reqs[1].body.data # Null
  /\ reqs[2].pc = "failed"
  /\ ufState.error # Null

\* The message of the error a failed run of fetchData caught.
CaughtMessage(r) == IF r.rejection # Null THEN r.rejection[1] ELSE NotOkMessage

\* C5: when a run of fetchData fails (fetch rejects, the response is not ok,
\* or response.json() rejects) the state becomes {data: null, loading: false,
\* error: the error's message}; a response that is not ok always fails, with
\* the message 'Network response was not ok', and its body is never parsed.
FailedFetchSetsError ==
  /\ [](\A i \in 1..Len(reqs) :
          reqs[i].status = "notok" =>
            /\ reqs[i].pc = "failed"
            /\ ~reqs[i].parsed
            /\ reqs[i].rejection = Null)
  /\ [][\A i \in 1..Len(reqs) :
          reqs[i].pc # "failed" /\ reqs'[i].pc = "failed" =>
            ufState' = [data |-> Null, loading |-> FALSE,
                        error |-> Some(CaughtMessage(reqs'[i]))]]_vars

\* C5 witness: one run failed on a response that was not ok, and the state
\* holds that error.
FailedFetchWitness ==
  /\ \E i \in 1..Len(reqs) : reqs[i].status = "notok" /\ reqs[i].pc = "failed"
  /\ ufState = [data |-> Null, loading |-> FALSE, error |-> Some(NotOkMessage)]

\* What render() shows for a list of users.
UserItems(d) ==
  [i \in 1..Len(d) |-> [key |-> d[i].id, text |-> <<d[i].name, " - ", d[i].email>>]]

\* C6: UserList renders 'Loading...' from the mount until the request
\* settles; from then on loading is false, never true again, and it renders
\* the error text when the request failed and the users when it succeeded.
UserListShowsOutcome ==
  /\ [](/\ ulReq.status = "pending" =>
             UserListRender(ulState) = [tag |-> "p", text |-> "Loading...", items |-> <<>>]
        /\ ulReq.status \in {"resolved", "rejected"} => ~ulState.loading
        /\ ulReq.status = "rejected" =>
             UserListRender(ulState) = [tag |-> "p", text |-> ulReq.message, items |-> <<>>]
        /\ ulReq.status = "resolved" =>
             UserListRender(ulState) = [tag |-> "ul", text |-> "", items |-> UserItems(ulReq.data)])
  /\ [][~ulState.loading => ~ulState'.loading]_vars

\* C6 witness: the request failed and the error text is rendered.
UserListWitness ==
  /\ ulReq.status = "rejected"
  /\ UserListRender(ulState).text = "Network Error"


\* What the action does to a list of users, as a function of values.
Applied(us, a) ==
  LET hits == {i \in 1..Len(us) : us[i].id = a.payload.id}
      idx == IF hits = {} THEN 0 ELSE CHOOSE i \in hits : \A j \in hits : i <= j
  IN CASE a.type = "add_user" -> Append(us, a.payload)
       [] a.type = "update_user" /\ idx # 0 -> [us EXCEPT ![idx].name = a.payload.name]
       [] OTHER -> us

\* C7: after reducer(state, action) the state passed in holds what it held
\* before (the same users, ids and names); the change is in the returned
\* state; and an unknown type or an update_user of an absent id returns the
\* very state passed in.
ReducerLeavesInput ==
  /\ Deep(heap, prevState) = prevSnap
  /\ lastAction # NoAction => Deep(heap, rState) = Applied(prevSnap, lastAction)
  /\ (\/ lastAction.type \notin {"add_user", "update_user"}
      \/ /\ lastAction.type = "update_user"
         /\ \A i \in 1..Len(prevSnap) : prevSnap[i].id # lastAction.payload.id)
       => rState = prevState

\* C7 witness: an update_user changed the name of a user of the state passed in.
ReducerWitness ==
  /\ lastAction.type = "update_user"
  /\ Len(prevSnap) >= 2
  /\ Deep(heap, rState) # prevSnap

AllFilled(f) == f.name # "" /\ f.email # "" /\ f.password # ""

\* C10: a submit event calls preventDefault, and calls the callback exactly
\* when name, email and password are all non-empty in the form state.
SubmitCallsBackIffValid ==
  [][submits' # submits =>
       /\ prevented' = prevented + 1
       /\ AllFilled(form) => callbacks' = callbacks + 1
       /\ ~AllFilled(form) => callbacks' = callbacks]_vars

\* C10 witness: one submit called the callback and another one did not.
SubmitWitness ==
  /\ callbacks >= 1
  /\ submits > callbacks
  /\ prevented = submits


\* C11: while no descendant has thrown in rendering, a mounted error boundary
\* renders its children and has logged nothing; once a descendant at any
\* depth has thrown, hasError is true, componentDidCatch has logged that
\* error, and the fallback is rendered instead of the children.
BoundaryShowsFallback ==
  /\ ebKind # "none" /\ ebThrown = Null =>
       /\ ~hasError
       /\ logged = <<>>
       /\ BoundaryRendered = ebChildren
  /\ ebThrown # Null =>
       /\ hasError
       /\ Len(logged) = 1
       /\ logged[1].error = ebThrown[1].error
       /\ logged[1].componentStack = ebThrown[1].depth
       /\ logged[1].label = IF ebKind = "ErrorBoundary"
                              THEN "Error caught by ErrorBoundary:"
                              ELSE "Error caught by CustomErrorBoundary:"
       /\ BoundaryRendered # ebChildren
       /\ BoundaryRendered = IF ebKind = "ErrorBoundary"
                               THEN "<div>Something went wrong.</div>"
                               ELSE ebFallback

\* C11 witness: a component three levels below a CustomErrorBoundary threw
\* and the fallback given in the props is rendered.
BoundaryWitness ==
  /\ ebKind = "CustomErrorBoundary"
  /\ ebThrown # Null
  /\ ebThrown[1].depth = 3
  /\ BoundaryRendered = "<ErrorPage />"

====
